---- MODULE Spec2Model ----
(***************************************************************************)
(* watchfor: the poll-retry engine.                                        *)
(*                                                                         *)
(* Poller.Run (pkg/poller) calls Watcher.Check, evaluates Poller.match on  *)
(* the returned bytes, and then either returns (pattern found, matcher     *)
(* error, max retries reached) or waits in a select between ctx.Done() and *)
(* time.After(nextInterval).                                               *)
(*                                                                         *)
(* Time is counted in whole seconds from the moment Run is entered.        *)
(* Bytes are sequences of one-character strings.  Poller.verbose only      *)
(* selects what is printed and is left out.                                *)
(*                                                                         *)
(* Besides Spec, the poll loop, and FairSpec, the poll loop under weak     *)
(* fairness of its steps, the module holds more specifications over the    *)
(* same variables: SpecFile (FileWatcher and the file it reads),           *)
(* SpecCommand (CommandWatcher), SpecMatch (Poller.match on its own),      *)
(* SpecMain (main: flags, choice of the watcher, poll, follow-up, exit),   *)
(* SpecJitter (the perturbed delays), SpecFilePoll (the poll loop probing  *)
(* a FileWatcher) and SpecDelay (the delays on their own).  Each leaves    *)
(* the variables it does not use at their idle values.                     *)
(***************************************************************************)
EXTENDS Integers, Sequences, FiniteSets, TLC

(***************************************************************************)
(* Bounds of the model.                                                    *)
(***************************************************************************)
\* Largest --max-retries value tried (0 means retry forever).
MaxRetriesBound == 2
\* Runs without a retry ceiling are followed for this many probes.
MaxProbes == 3
\* Largest deadline tried, in seconds after Run is entered.
MaxTimeout == 2

\* Largest size of the watched file when NewFileWatcher is called.
MaxPre == 2
\* Bytes written to the watched path after that, in all.
MaxWritten == 2
\* Calls of FileWatcher.Check that are followed.
MaxChecks == 3
\* Files that ever exist at the watched path (one more than the rotations).
MaxInodes == 2
\* Calls of FileWatcher.Close that are followed.
MaxCloses == 2
\* Most Checks of one CommandWatcher.
MaxCmdChecks == 2
\* Longest pattern and longest probed text Poller.match is applied to on its own.
MaxPatLen == 2
MaxCandLen == 3
\* Jittered waits of one run that are followed.
MaxJitterWaits == 3

\* time.Hour, in seconds: the cap on the delay between attempts.
Hour == 3600

\* Values of --interval (seconds).
Intervals == {0, 1, 2000}
\* Values of --backoff: whole factors, for which float64 arithmetic is exact.
Backoffs == {1, 2}
\* How long one Watcher.Check may take (seconds).
ProbeTimes == {0, 1}
\* Values of --pattern with --regex and --ignore-case.  "." and "[" are regexp
\* metacharacters, and ordinary bytes in literal mode.
Matchers ==
    { [pattern |-> <<"a", ".">>, regex |-> FALSE, ignoreCase |-> FALSE],
      [pattern |-> <<"a", ".">>, regex |-> FALSE, ignoreCase |-> TRUE],
      [pattern |-> <<"a", ".">>, regex |-> TRUE,  ignoreCase |-> FALSE],
      [pattern |-> <<"a", ".">>, regex |-> TRUE,  ignoreCase |-> TRUE],
      [pattern |-> <<"[", "a">>, regex |-> FALSE, ignoreCase |-> FALSE],
      [pattern |-> <<"[", "a">>, regex |-> TRUE,  ignoreCase |-> FALSE],
      [pattern |-> <<"[", "a">>, regex |-> TRUE,  ignoreCase |-> TRUE] }
\* What one Watcher.Check may return: the bytes and whether err != nil.
ProbeResults ==
    { [out |-> <<"x", "a", ".">>, err |-> FALSE],
      [out |-> <<"A", ".">>,      err |-> TRUE],
      [out |-> <<"a", "b">>,      err |-> TRUE],
      [out |-> <<"b">>,           err |-> FALSE],
      [out |-> <<>>,              err |-> TRUE] }

VARIABLES
    pattern,       \* Poller.pattern
    regex,         \* Poller.regex
    ignoreCase,    \* Poller.ignoreCase
    interval,      \* Run parameter interval
    maxRetries,    \* Run parameter maxRetries
    backoff,       \* Run parameter backoff
    hasDeadline,   \* ctx carries a deadline (context.WithTimeout)
    deadline,      \* the instant ctx.Done() is closed, when hasDeadline
    attempt,       \* Run local attempt
    nextInterval,  \* Run local nextInterval
    pc,            \* "check": at the top of the loop; "wait": in the select; "done": returned
    outcome,       \* which return statement of Run was taken
    now,           \* the clock
    waited,        \* time spent so far in waits that ran to their end
    history,       \* one record per call of Watcher.Check, in order
    disk,          \* the file system: the file at the watched path and every file's bytes
    fw,            \* the FileWatcher: its handle and its offset
    trace,         \* what the calls on the FileWatcher returned, and what was done to the file
    cw,            \* the CommandWatcher: its command
    procs,         \* one record per CommandWatcher.Check: the child process and what Check returned
    candidate,     \* the bytes handed to Poller.match when it is applied on its own
    verdict,       \* what that application returned
    flags,         \* main: the parsed command line
    mpc,           \* main: the statement main is at
    exitStatus,    \* main: the exit status of the process, -1 while it runs
    executed,      \* main: one record per call of executor.Execute
    jitter,        \* the jitter factor of a run, in hundredths
    waits          \* one record per jittered wait: the computed delay and the realized one

pollerVars == <<pattern, regex, ignoreCase, interval, maxRetries, backoff, hasDeadline,
                deadline, attempt, nextInterval, pc, outcome, now, waited, history>>

fileVars == <<disk, fw, trace>>

cmdVars == <<cw, procs>>

matchVars == <<candidate, verdict>>

mainVars == <<flags, mpc, exitStatus, executed>>

jitterVars == <<jitter, waits>>

\* The variables Poller.Run does not touch.
others == <<fileVars, cmdVars, matchVars, mainVars, jitterVars>>

\* The variables FileWatcher does not touch.
notFile == <<pollerVars, cmdVars, matchVars, mainVars, jitterVars>>

vars == <<pollerVars, others>>

config == <<pattern, regex, ignoreCase, interval, maxRetries, backoff, hasDeadline, deadline>>

(***************************************************************************)
(* Helpers.                                                                *)
(***************************************************************************)
Max(a, b) == IF a >= b THEN a ELSE b

Min(a, b) == IF a <= b THEN a ELSE b

RECURSIVE Pow(_, _)
\* math.Pow for a whole base and a whole exponent >= 0.
Pow(b, n) == IF n = 0 THEN 1 ELSE b * Pow(b, n - 1)

\* unicode.ToLower on one byte of the alphabet.
ToLowerByte(c) ==
    CASE c = "A" -> "a"
      [] c = "B" -> "b"
      [] OTHER -> c

\* bytes.ToLower
ToLower(s) == [i \in 1..Len(s) |-> ToLowerByte(s[i])]

\* bytes.Contains: sub occurs in s as a contiguous run of bytes.
Contains(s, sub) ==
    \E i \in 0..(Len(s) - Len(sub)) : SubSeq(s, i + 1, i + Len(sub)) = sub

(***************************************************************************)
(* regexp over the alphabet: a letter matches itself (or, under (?i), the  *)
(* same letter in either case), "." matches any byte, and "[" opens a      *)
(* character class that nothing in the alphabet closes, so a pattern with  *)
(* "[" does not compile.                                                   *)
(***************************************************************************)
RegexCompiles(p) == \A i \in 1..Len(p) : p[i] # "["

RegexByteMatches(pc0, c, fold) ==
    \/ pc0 = "."
    \/ IF fold THEN ToLowerByte(pc0) = ToLowerByte(c) ELSE pc0 = c

\* regexp.Match for a pattern that compiles: an unanchored search.
RegexFinds(p, fold, s) ==
    \E i \in 0..(Len(s) - Len(p)) :
        \A j \in 1..Len(p) : RegexByteMatches(p[j], s[i + j], fold)

(***************************************************************************)
(* Poller.match                                                            *)
(***************************************************************************)
\* A matcher whose case-insensitive literal mode lower-cases the probed
\* bytes and not the pattern.
matchLowersOutputOnly(output) ==
    IF regex
    THEN IF RegexCompiles(pattern)
         THEN [matched |-> RegexFinds(pattern, ignoreCase, output), err |-> FALSE]
         ELSE [matched |-> FALSE, err |-> TRUE]
    ELSE IF ignoreCase
         THEN [matched |-> Contains(ToLower(output), pattern), err |-> FALSE]
         ELSE [matched |-> Contains(output, pattern), err |-> FALSE]

\* A matcher whose literal mode always folds case.
matchFoldsCase(output) ==
    IF regex
    THEN IF RegexCompiles(pattern)
         THEN [matched |-> RegexFinds(pattern, ignoreCase, output), err |-> FALSE]
         ELSE [matched |-> FALSE, err |-> TRUE]
    ELSE [matched |-> Contains(ToLower(output), ToLower(pattern)), err |-> FALSE]

\* A matcher that reports a pattern that does not compile as "no match".
matchSwallowsError(output) ==
    IF regex
    THEN [matched |-> RegexCompiles(pattern) /\ RegexFinds(pattern, ignoreCase, output),
          err     |-> FALSE]
    ELSE IF ignoreCase
         THEN [matched |-> Contains(ToLower(output), ToLower(pattern)), err |-> FALSE]
         ELSE [matched |-> Contains(output, pattern), err |-> FALSE]

\* p.match(output): the pair (matched, err != nil) it returns.  In regex mode
\* the pattern, prefixed with "(?i)" under ignoreCase, is compiled on every
\* call and a compile error is returned with matched = false.
match(output) ==
    IF regex
    THEN IF RegexCompiles(pattern)
         THEN [matched |-> RegexFinds(pattern, ignoreCase, output), err |-> FALSE]
         ELSE [matched |-> FALSE, err |-> TRUE]
    ELSE IF ignoreCase
         THEN [matched |-> Contains(ToLower(output), ToLower(pattern)), err |-> FALSE]
         ELSE [matched |-> Contains(output, pattern), err |-> FALSE]

(***************************************************************************)
(* Poller.Run, one loop iteration up to the select.                        *)
(***************************************************************************)
\* A loop that tests the retry ceiling before it looks at the bytes: the
\* bytes of the last allowed probe are not matched.
MatchProbeUnlessLast(output, err) ==
    IF maxRetries > 0 /\ attempt >= maxRetries - 1
    THEN [matched |-> FALSE, err |-> FALSE]
    ELSE match(output)

\* A loop that matches only the output of a Check that returned no error.
MatchProbeSkipsOnError(output, err) ==
    IF err THEN [matched |-> FALSE, err |-> FALSE] ELSE match(output)

\* A loop that gives up when Check returns an error.
MatchProbeErrorIsFatal(output, err) ==
    IF err THEN [matched |-> FALSE, err |-> TRUE] ELSE match(output)

\* What the loop does with the result of p.w.Check(): the error is only
\* logged (under verbose), and p.match is called on the output either way.
MatchProbe(output, err) == match(output)

\* A retry ceiling that also applies to max-retries = 0.
ShouldStopAtZero(n) == n >= maxRetries - 1

\* A retry ceiling that is one attempt too late.
ShouldStopOffByOne(n) == maxRetries > 0 /\ n >= maxRetries

\* A retry ceiling that is one attempt too early.
ShouldStopTooEarly(n) == maxRetries > 0 /\ n >= maxRetries - 2

\* A ceiling that is applied to every value of max-retries but 0.
ShouldStopNonZero(n) == maxRetries # 0 /\ n >= maxRetries - 1

\* "Check if we should stop": n is the 0-based index of the attempt just made.
ShouldStop(n) == maxRetries > 0 /\ n >= maxRetries - 1

\* A delay whose exponent is the 0-based attempt index: the first wait is interval.
NextDelayFromZero(n) == Min(interval * Pow(backoff, n - 1), Hour)

\* The delay without the cap.
NextDelayUncapped(n) == interval * Pow(backoff, n)

\* The delay computed after attempt has been incremented to n:
\* interval * backoff^n, capped at one hour.
NextDelay(n) ==
    LET delay == interval * Pow(backoff, n)
        maxDelay == Hour
    IN  IF delay > maxDelay THEN maxDelay ELSE delay

(***************************************************************************)
(* The parts of the state a specification does not use stay at rest.       *)
(***************************************************************************)
PollerIdle ==
    /\ pattern = <<>>
    /\ regex = FALSE
    /\ ignoreCase = FALSE
    /\ interval = 0
    /\ maxRetries = 0
    /\ backoff = 1
    /\ hasDeadline = FALSE
    /\ deadline = 0
    /\ attempt = 0
    /\ nextInterval = 0
    /\ pc = "idle"
    /\ outcome = "none"
    /\ now = 0
    /\ waited = 0
    /\ history = <<>>

\* What has been observed of a FileWatcher so far: the content the file
\* had at construction, the number of bytes ever written, what each Check
\* returned, the kinds of event seen, the result of NewFileWatcher, what
\* each Close returned and how often the handle itself was closed.
NoTrace ==
    [pre |-> <<>>, written |-> 0, results |-> <<>>, seen |-> {},
     skipped |-> {}, behind |-> {},
     constructed |-> "no", closeRets |-> <<>>, handleCloses |-> 0, lastOp |-> "none"]

\* No FileWatcher.  Of a watcher, state, file and offset are the handle and
\* FileWatcher.offset; reading, pos and buf are a Check in progress: the
\* position of the handle in its file and the buffer io.Copy fills.
NoWatcher ==
    [state |-> "none", file |-> 0, offset |-> 0,
     reading |-> FALSE, pos |-> 0, buf |-> <<>>]

FileIdle ==
    /\ disk = [at |-> 0, data |-> <<>>]
    /\ fw = NoWatcher
    /\ trace = NoTrace

CmdIdle ==
    /\ cw = [state |-> "none", command |-> ""]
    /\ procs = <<>>

\* Poller.match has not returned.
NoVerdict == [applied |-> FALSE, matched |-> FALSE, err |-> FALSE]

MatchIdle ==
    /\ candidate = <<>>
    /\ verdict = NoVerdict

MainIdle ==
    /\ flags = "none"
    /\ mpc = "idle"
    /\ exitStatus = -1
    /\ executed = <<>>

JitterIdle ==
    /\ jitter = 0
    /\ waits = <<>>

OthersIdle == FileIdle /\ CmdIdle /\ MatchIdle /\ MainIdle /\ JitterIdle

TypeOK ==
    /\ [pattern |-> pattern, regex |-> regex, ignoreCase |-> ignoreCase] \in Matchers
    /\ interval \in Intervals
    /\ maxRetries \in 0..MaxRetriesBound
    /\ backoff \in Backoffs
    /\ hasDeadline \in BOOLEAN
    /\ deadline \in 0..MaxTimeout
    /\ attempt \in Nat
    /\ nextInterval \in Nat
    /\ pc \in {"check", "wait", "done"}
    /\ outcome \in {"none", "Matched", "FatalError", "ExhaustedRetries", "TimedOut"}
    /\ now \in Nat
    /\ waited \in Nat
    /\ Len(history) <= MaxProbes

\* A Run that waits before its first probe.
InitWaitsFirst ==
    /\ \E m \in Matchers :
        /\ pattern = m.pattern
        /\ regex = m.regex
        /\ ignoreCase = m.ignoreCase
    /\ interval \in Intervals
    /\ maxRetries \in 0..MaxRetriesBound
    /\ backoff \in Backoffs
    /\ hasDeadline \in BOOLEAN
    /\ deadline \in (IF hasDeadline THEN 0..MaxTimeout ELSE {0})
    /\ attempt = 0
    /\ nextInterval = interval
    /\ pc = "wait"
    /\ outcome = "none"
    /\ now = 0
    /\ waited = 0
    /\ history = <<>>
    /\ OthersIdle

\* Run is entered: attempt := 0 and the loop starts with a probe.  A deadline
\* of 0 is a context that is already done when Run is entered.
Init ==
    /\ \E m \in Matchers :
        /\ pattern = m.pattern
        /\ regex = m.regex
        /\ ignoreCase = m.ignoreCase
    /\ interval \in Intervals
    /\ maxRetries \in 0..MaxRetriesBound
    /\ backoff \in Backoffs
    /\ hasDeadline \in BOOLEAN
    /\ deadline \in (IF hasDeadline THEN 0..MaxTimeout ELSE {0})
    /\ attempt = 0
    /\ nextInterval = 0
    /\ pc = "check"
    /\ outcome = "none"
    /\ now = 0
    /\ waited = 0
    /\ history = <<>>
    /\ OthersIdle

\* One pass through the loop body, from the result r of p.w.Check() to the
\* select (or to a return).  The probe starts at `now` and takes d seconds.
IterateWith(r, d) ==
        LET m == MatchProbe(r.out, r.err) IN
        /\ history' = Append(history, [out |-> r.out, err |-> r.err, start |-> now,
                                       waited |-> waited])
        /\ now' = now + d
        /\ IF m.err
           THEN /\ pc' = "done"
                /\ outcome' = "FatalError"
                /\ UNCHANGED <<attempt, nextInterval>>
           ELSE IF m.matched
           THEN /\ pc' = "done"
                /\ outcome' = "Matched"
                /\ UNCHANGED <<attempt, nextInterval>>
           ELSE IF ShouldStop(attempt)
           THEN /\ pc' = "done"
                /\ outcome' = "ExhaustedRetries"
                /\ UNCHANGED <<attempt, nextInterval>>
           ELSE /\ attempt' = attempt + 1
                /\ nextInterval' = NextDelay(attempt + 1)
                /\ pc' = "wait"
                /\ UNCHANGED outcome

\* The loop body over a probe whose result and duration are chosen freely.
Iterate ==
    /\ pc = "check"
    /\ Len(history) < MaxProbes
    /\ \E r \in ProbeResults, d \in ProbeTimes : IterateWith(r, d)
    /\ UNCHANGED <<config, waited, others>>

(***************************************************************************)
(* The select: ctx.Done() is ready from the deadline on, time.After from   *)
(* now + nextInterval on.  The case that becomes ready first is taken;     *)
(* when both are ready at the same moment either may be taken.             *)
(***************************************************************************)
\* A context whose Done channel is never ready before the timer.
CtxNeverReady == now + nextInterval + 1

\* The instant from which ctx.Done() is ready.
CtxReadyAt == Max(now, deadline)

TimerReadyAt == now + nextInterval

\* A wait that sleeps the whole delay whatever the context does.
WaitTimerSleeps ==
    /\ pc = "wait"
    /\ now' = TimerReadyAt
    /\ waited' = waited + (TimerReadyAt - now)
    /\ pc' = "check"
    /\ UNCHANGED <<config, attempt, nextInterval, outcome, history, others>>

\* case <-time.After(nextInterval): continue with the next iteration.
WaitTimer ==
    /\ pc = "wait"
    /\ hasDeadline => TimerReadyAt <= CtxReadyAt
    /\ now' = TimerReadyAt
    /\ waited' = waited + (TimerReadyAt - now)
    /\ pc' = "check"
    /\ UNCHANGED <<config, attempt, nextInterval, outcome, history, others>>

\* A loop that watches the context while a probe runs, too.
WaitCtxDoneAnywhere ==
    /\ pc \in {"check", "wait"}
    /\ hasDeadline
    /\ pc = "wait" => CtxReadyAt <= TimerReadyAt
    /\ now' = CtxReadyAt
    /\ pc' = "done"
    /\ outcome' = "TimedOut"
    /\ UNCHANGED <<config, attempt, nextInterval, waited, history, others>>

\* case <-ctx.Done(): "Timeout reached.", return false.
WaitCtxDone ==
    /\ pc = "wait"
    /\ hasDeadline
    /\ CtxReadyAt <= TimerReadyAt
    /\ now' = CtxReadyAt
    /\ pc' = "done"
    /\ outcome' = "TimedOut"
    /\ UNCHANGED <<config, attempt, nextInterval, waited, history, others>>

Next == Iterate \/ WaitTimer \/ WaitCtxDone

Spec == Init /\ [][Next]_vars

\* The poll loop when every call of Watcher.Check returns and the runtime
\* delivers every timer and every context deadline: a loop that can take a
\* step does not stand still.
FairSpec ==
    /\ Spec
    /\ WF_vars(Iterate)
    /\ WF_vars(WaitTimer)
    /\ WF_vars(WaitCtxDone)

(***************************************************************************)
(* Vocabulary of the properties.                                           *)
(***************************************************************************)
Done == pc = "done"

\* The number of calls of Watcher.Check so far.
Probes == Len(history)

\* The pattern can be evaluated: literal mode, or a regexp that compiles.
PatternUsable == regex => RegexCompiles(pattern)

\* The bytes of probe i satisfy the pattern.
Matching(i) == PatternUsable /\ match(history[i].out).matched

\* The source has not produced matching bytes so far.
NeverMatched == \A i \in 1..Probes : ~Matching(i)

RECURSIVE TotalWaitBefore(_)
\* The sum over n = 1..k-1 of min(interval * backoff^n, 1 hour).
TotalWaitBefore(k) ==
    IF k <= 1 THEN 0
    ELSE TotalWaitBefore(k - 1) + Min(interval * Pow(backoff, k - 1), Hour)

(***************************************************************************)
(* C1.  With max-retries = N > 0, no deadline and a source that never      *)
(* matches a usable pattern, Run makes exactly N calls of Check and then   *)
(* returns failure by exhaustion: never N-1, never N+1.                    *)
(***************************************************************************)
C1_ExactlyNProbes ==
    (maxRetries > 0 /\ ~hasDeadline /\ PatternUsable /\ NeverMatched) =>
        /\ Probes <= maxRetries
        /\ Probes = maxRetries => (Done /\ outcome = "ExhaustedRetries")
        /\ Done => (Probes = maxRetries /\ outcome = "ExhaustedRetries")

C1_Witness ==
    /\ maxRetries = 2 /\ ~hasDeadline /\ NeverMatched
    /\ Done /\ outcome = "ExhaustedRetries" /\ Probes = 2

(***************************************************************************)
(* C2.  With both a deadline and max-retries > 0 and a source that never   *)
(* matches, the deadline overrides the retry ceiling: the run does not end *)
(* while the deadline has not expired, and it ends with TimedOut, not with *)
(* ExhaustedRetries.                                                       *)
(***************************************************************************)
C2_DeadlineOverridesRetries ==
    (hasDeadline /\ deadline > 0 /\ maxRetries > 0 /\ PatternUsable /\ NeverMatched) =>
        /\ now < deadline => ~Done
        /\ Done => outcome = "TimedOut"

(***************************************************************************)
(* C3.  In regex mode with a pattern that does not compile, Run returns    *)
(* with a matcher error on the first attempt, after exactly one call of    *)
(* Check, whatever max-retries and the deadline are.                       *)
(***************************************************************************)
C3_InvalidRegexIsFatal ==
    (regex /\ ~RegexCompiles(pattern)) =>
        /\ Probes <= 1
        /\ Probes = 1 => (Done /\ outcome = "FatalError")
        /\ Done => (Probes = 1 /\ outcome = "FatalError")

C3_Witness ==
    /\ regex /\ ~RegexCompiles(pattern) /\ ignoreCase
    /\ maxRetries = 0 /\ hasDeadline
    /\ Done /\ outcome = "FatalError" /\ Probes = 1

(***************************************************************************)
(* C4.  No call of Check starts once the deadline has expired during or    *)
(* before a wait, even when the wait's own timer elapses at the same       *)
(* moment: every probe after the first starts before the deadline.  Stated *)
(* for a positive interval and a deadline that lies after the entry of     *)
(* Run, so that every wait is a real one.                                  *)
(***************************************************************************)
C4_NoProbeAfterDeadline ==
    (hasDeadline /\ deadline > 0 /\ interval > 0) =>
        \A i \in 2..Probes : history[i].start < deadline

(***************************************************************************)
(* C5.  With a deadline shorter than the first wait, max-retries = N > 1   *)
(* and a source that never matches, the run ends by timeout after at least *)
(* one probe and fewer than N probes: after exactly one.                   *)
(***************************************************************************)
C5_ShortDeadline ==
    (Done /\ hasDeadline /\ deadline < NextDelay(1) /\ maxRetries > 1
          /\ PatternUsable /\ NeverMatched) =>
        /\ outcome = "TimedOut"
        /\ Probes >= 1
        /\ Probes < maxRetries
        /\ Probes = 1

C5_Witness ==
    /\ hasDeadline /\ deadline > 0 /\ deadline < NextDelay(1) /\ maxRetries > 1
    /\ NeverMatched /\ Done /\ outcome = "TimedOut" /\ Probes = 1

(***************************************************************************)
(* C6.  A probe error never ends the run on its own.  When every Check     *)
(* returns an error and bytes that do not match, and no deadline cuts the  *)
(* run short, the loop makes max-retries probes and ends by exhaustion; a  *)
(* probe error on attempt i followed by a matching probe on attempt j > i  *)
(* gives Matched after exactly j probes.                                   *)
(***************************************************************************)
C6_ProbeErrorDoesNotEndRun ==
    /\ (Done /\ maxRetries > 0 /\ PatternUsable /\ outcome # "TimedOut"
             /\ \A i \in 1..Probes : history[i].err /\ ~Matching(i)) =>
          (Probes = maxRetries /\ outcome = "ExhaustedRetries")
    /\ \A i, j \in 1..Probes :
          (i < j /\ history[i].err /\ Matching(j)) =>
              (Done /\ outcome = "Matched" /\ Probes = j)

C6_Witness ==
    /\ maxRetries = 2 /\ Done /\ outcome = "ExhaustedRetries" /\ Probes = 2
    /\ \A i \in 1..Probes : history[i].err /\ ~Matching(i)

(***************************************************************************)
(* C7.  The matcher is evaluated on the bytes of every probe, also of one  *)
(* that returned an error: an error together with bytes that contain the   *)
(* pattern ends the run with Matched on that attempt.                      *)
(***************************************************************************)
C7_MatcherSeesErrorOutput ==
    \A i \in 1..Probes :
        (history[i].err /\ Matching(i)) =>
            (i = Probes /\ Done /\ outcome = "Matched")

C7_Witness ==
    /\ Probes >= 1 /\ history[Probes].err /\ Matching(Probes)
    /\ Done /\ outcome = "Matched"

(***************************************************************************)
(* C8.  If the source first returns matching bytes on attempt k, Run       *)
(* returns success after exactly k probes and makes no probe after it; and *)
(* before that attempt only the retry ceiling (at max-retries probes), an  *)
(* expired deadline or an unusable pattern can end the run.                *)
(***************************************************************************)
C8_MatchOnAttemptK ==
    /\ \A i \in 1..Probes :
          Matching(i) => (i = Probes /\ Done /\ outcome = "Matched")
    /\ outcome = "Matched" => (Probes >= 1 /\ Matching(Probes))
    /\ (Done /\ outcome # "Matched") =>
          \/ outcome = "FatalError" /\ ~PatternUsable
          \/ outcome = "ExhaustedRetries" /\ maxRetries > 0 /\ Probes = maxRetries
          \/ outcome = "TimedOut" /\ hasDeadline /\ now >= deadline

C8_Witness ==
    /\ Probes = 3 /\ ~Matching(1) /\ ~Matching(2) /\ Matching(3)
    /\ Done /\ outcome = "Matched"

(***************************************************************************)
(* C9.  The wait that follows the n-th failed attempt is                   *)
(* min(interval * backoff^n, 1 hour), so the first wait is                 *)
(* interval * backoff, and the time waited before the k-th probe is the    *)
(* sum of these values for n = 1..k-1.                                     *)
(***************************************************************************)
C9_BackoffDelay ==
    /\ pc = "wait" => nextInterval = Min(interval * Pow(backoff, Probes), Hour)
    /\ (pc = "wait" /\ Probes = 1) => nextInterval = Min(interval * backoff, Hour)
    /\ \A k \in 1..Probes : history[k].waited = TotalWaitBefore(k)

C9_Witness ==
    /\ interval = 1 /\ backoff = 2
    /\ Probes = 3 /\ history[2].waited = 2 /\ history[3].waited = 6

(***************************************************************************)
(* C10.  The first probe is made at once, with no wait before it, so every *)
(* run makes at least one probe before it ends, also when the deadline has *)
(* already expired when Run is entered.                                    *)
(***************************************************************************)
C10_FirstProbeImmediate ==
    /\ outcome # "none" => Probes >= 1
    /\ Done => Probes >= 1
    /\ Probes >= 1 => (history[1].start = 0 /\ history[1].waited = 0)
    /\ Probes = 0 => (pc = "check" /\ now = 0)

C10_Witness ==
    /\ hasDeadline /\ deadline = 0
    /\ Done /\ outcome = "TimedOut" /\ Probes = 1 /\ history[1].start = 0

(***************************************************************************)
(* FileWatcher (pkg/watcher).                                              *)
(*                                                                         *)
(* disk.data[i] is the content of file i and disk.at the file at the       *)
(* watched path (0: none).  Every byte ever written is a distinct number,  *)
(* so that a byte can be followed from the write to the Check that returns *)
(* it.  A handle stays on the file it was opened on when the path is       *)
(* renamed away.                                                           *)
(***************************************************************************)
\* The points at which one FileWatcher.Check may fail: in Stat, or later in
\* Seek or in the read, which leave the watcher in the same state.
CheckFaults == {"none", "stat", "io"}

\* The bytes of the file at the watched path.
PathData == disk.data[disk.at]

\* The bytes of the file the watcher's handle is open on.
HandleData == disk.data[fw.file]

\* The members of sequence s, as a set.
Range(s) == {s[i] : i \in 1..Len(s)}

\* The numbers from + 1 .. from + k, in order: k bytes never written before.
FreshBytes(from, k) == [i \in 1..k |-> from + i]

\* A watcher that starts reading at the start of the file.
SeekToStart(content) == 0

\* file.Seek(0, io.SeekEnd): the offset of the end of the file.
SeekToEnd(content) == Len(content)

\* A Close that leaves the handle in the watcher.
HandleKeptAfterClose(file) == file

\* fw.file = nil, "Prevent double close".
HandleAfterClose(file) == 0

\* The file and the watcher before NewFileWatcher is called: the path holds
\* a file of up to MaxPre bytes, or nothing.
FileInit ==
    /\ PollerIdle
    /\ CmdIdle
    /\ MatchIdle
    /\ MainIdle
    /\ JitterIdle
    /\ \E p \in 0..MaxPre, exists \in BOOLEAN :
        /\ disk = IF exists
                  THEN [at |-> 1, data |-> <<FreshBytes(0, p)>>]
                  ELSE [at |-> 0, data |-> <<>>]
        /\ trace = [NoTrace EXCEPT !.written = IF exists THEN p ELSE 0]
    /\ fw = NoWatcher

\* NewFileWatcher(path): os.Open, then Seek to the end.  An Open error
\* returns no watcher; a Seek error closes the handle and returns no watcher.
NewFileWatcherCall ==
    /\ fw.state = "none"
    /\ trace.constructed = "no"
    /\ IF disk.at = 0
       THEN /\ trace' = [trace EXCEPT !.constructed = "error", !.lastOp = "new"]
            /\ UNCHANGED fw
       ELSE \E seekFails \in BOOLEAN :
            IF seekFails
            THEN /\ trace' = [trace EXCEPT !.constructed = "error",
                                           !.handleCloses = @ + 1,
                                           !.lastOp = "new"]
                 /\ UNCHANGED fw
            ELSE /\ fw' = [NoWatcher EXCEPT !.state = "open",
                                            !.file = disk.at,
                                            !.offset = SeekToEnd(PathData)]
                 /\ trace' = [trace EXCEPT !.constructed = "ok",
                                           !.pre = PathData,
                                           !.lastOp = "new"]

\* A program that does nothing but call NewFileWatcher.
NewFileWatcher ==
    /\ pc = "idle"
    /\ NewFileWatcherCall
    /\ UNCHANGED <<notFile, disk>>

\* The offset is reset also when it is at the end of the file.
StartOffsetResetsAtEnd(offset, size) == IF offset >= size THEN 0 ELSE offset

\* if fw.offset > info.Size() { fw.offset = 0 }
StartOffset(offset, size) == IF offset > size THEN 0 ELSE offset

\* A Seek or read that failed leaves the offset at the end of the file.
OffsetAfterFailedReadSkips(off, size) == size

\* Seek or io.Copy returned an error: Check returns before fw.offset += n.
OffsetAfterFailedRead(off, size) == off

\* fw.offset = n: the offset is set to the size of the last read.
AdvanceOffsetToRead(off, n) == n

\* fw.offset += int64(n)
AdvanceOffset(off, n) == off + n

RECURSIVE ConcatBytes(_)
ConcatBytes(rs) ==
    IF rs = <<>> THEN <<>> ELSE rs[1].bytes \o ConcatBytes(Tail(rs))

\* All bytes the Checks so far returned, in the order returned.
Delivered == ConcatBytes(trace.results)

\* The bytes written since construction that lie in the watcher's file
\* below its offset and that no Check has returned.
SkippedBytes ==
    IF fw.file = 0 THEN {}
    ELSE { HandleData[i] : i \in 1..Min(fw.offset, Len(HandleData)) }
            \ (Range(Delivered) \cup Range(trace.pre))

\* FileWatcher.Check, first part: Stat and the reset of the offset when it
\* lies beyond the size Stat saw, then Seek to the offset.  On a closed
\* watcher, and when Stat fails, Check returns the error at once.
\* trace.skipped and trace.behind record, for the claims, the bytes a Check
\* that does not reset leaves below its offset: skipped all of them, behind
\* those left there since the offset was last reset.
FileCheckStat ==
    /\ fw.state # "none"
    /\ ~fw.reading
    /\ Len(trace.results) < MaxChecks
    /\ \E fault \in CheckFaults \ {"io"} :
        LET size == Len(HandleData)
            off  == StartOffset(fw.offset, size)
        IN  IF fw.file = 0 \/ fault = "stat"
            THEN /\ (fw.file = 0) => (fault = "none")
                 /\ trace' = [trace EXCEPT
                                !.results = Append(@, [bytes |-> <<>>, err |-> TRUE]),
                                !.seen = IF fault = "none" THEN @ ELSE @ \cup {"fault"},
                                !.lastOp = "check"]
                 /\ UNCHANGED fw
            ELSE /\ fw' = [fw EXCEPT !.offset = off, !.reading = TRUE,
                                     !.pos = off, !.buf = <<>>]
                 /\ trace' = [trace EXCEPT
                                !.skipped = IF off # fw.offset THEN @
                                            ELSE @ \cup SkippedBytes,
                                !.behind = IF off # fw.offset THEN {}
                                           ELSE @ \cup SkippedBytes]

\* FileWatcher.Check, second part: one Read of io.Copy, which reads from the
\* position of the handle to the end the file has at that moment (the files
\* of the model are shorter than the buffer of at least 512 bytes).  A Read
\* that returns bytes is followed by another Read; a Read that returns none
\* ends io.Copy: the offset advances by what the buffer holds and Check
\* returns the buffer.  A Seek or Read that fails ends Check with the error.
\* The file is not locked: other processes write between these steps.
FileCheckRead ==
    /\ fw.reading
    /\ \E fault \in CheckFaults \ {"stat"} :
        LET size == Len(HandleData)
            got  == SubSeq(HandleData, fw.pos + 1, size)
            end  == [fw EXCEPT !.reading = FALSE, !.pos = 0, !.buf = <<>>]
        IN  IF fault = "io"
            THEN /\ fw' = [end EXCEPT !.offset = OffsetAfterFailedRead(fw.offset, size)]
                 /\ trace' = [trace EXCEPT
                                !.results = Append(@, [bytes |-> <<>>, err |-> TRUE]),
                                !.seen = @ \cup {"fault"},
                                !.lastOp = "check"]
            ELSE IF got # <<>>
            THEN /\ fw' = [fw EXCEPT !.pos = @ + Len(got), !.buf = @ \o got]
                 /\ UNCHANGED trace
            ELSE /\ fw' = [end EXCEPT !.offset = AdvanceOffset(fw.offset, Len(fw.buf))]
                 /\ trace' = [trace EXCEPT
                                !.results = Append(@, [bytes |-> fw.buf, err |-> FALSE]),
                                !.lastOp = "check"]

\* One step of a Check.
FileCheckCall == FileCheckStat \/ FileCheckRead

\* This step ends a Check: it has returned.
FileCheckReturns == Len(trace'.results) = Len(trace.results) + 1

FileCheck ==
    /\ pc = "idle"
    /\ FileCheckCall
    /\ UNCHANGED <<notFile, disk>>

\* FileWatcher.Close: closes the handle if there is one and forgets it.
\* Closing a handle that is already closed is an error of the os package.
FileClose ==
    /\ pc = "idle"
    /\ fw.state # "none"
    /\ ~fw.reading
    /\ Len(trace.closeRets) < MaxCloses
    /\ IF fw.file # 0
       THEN /\ fw' = [fw EXCEPT !.state = "closed", !.file = HandleAfterClose(fw.file)]
            /\ trace' = [trace EXCEPT !.closeRets = Append(@, fw.state = "closed"),
                                      !.handleCloses = @ + 1,
                                      !.lastOp = "close"]
       ELSE /\ trace' = [trace EXCEPT !.closeRets = Append(@, FALSE),
                                      !.lastOp = "close"]
            /\ UNCHANGED fw
    /\ UNCHANGED <<notFile, disk>>

\* Another process appends k bytes to the file at the watched path.
FileAppendCall ==
    /\ fw.state = "open"
    /\ disk.at # 0
    /\ \E k \in 1..2 :
        /\ trace.written + k <= Len(trace.pre) + MaxWritten
        /\ disk' = [disk EXCEPT !.data[disk.at] = @ \o FreshBytes(trace.written, k)]
        /\ trace' = [trace EXCEPT !.written = @ + k,
                                  !.seen = @ \cup {"append"},
                                  !.lastOp = "append"]

FileAppend ==
    /\ pc = "idle"
    /\ FileAppendCall
    /\ UNCHANGED <<notFile, fw>>

\* Another process truncates the file at the watched path to n bytes.
FileTruncate ==
    /\ pc = "idle"
    /\ fw.state = "open"
    /\ disk.at # 0
    /\ \E n \in 0..(Len(PathData) - 1) :
        /\ disk' = [disk EXCEPT !.data[disk.at] = SubSeq(@, 1, n)]
        /\ trace' = [trace EXCEPT !.seen = @ \cup {"truncate"},
                                  !.lastOp = "truncate"]
    /\ UNCHANGED <<notFile, fw>>

\* Rotation: the file at the watched path is renamed away and a new, empty
\* file is created at the path.
FileRotate ==
    /\ pc = "idle"
    /\ fw.state = "open"
    /\ disk.at # 0
    /\ Len(disk.data) < MaxInodes
    /\ disk' = [at |-> Len(disk.data) + 1, data |-> Append(disk.data, <<>>)]
    /\ trace' = [trace EXCEPT !.seen = @ \cup {"rotate"},
                              !.lastOp = "rotate"]
    /\ UNCHANGED <<notFile, fw>>

FileNext ==
    \/ NewFileWatcher
    \/ FileCheck
    \/ FileClose
    \/ FileAppend
    \/ FileTruncate
    \/ FileRotate

SpecFile == FileInit /\ [][FileNext]_vars

(***************************************************************************)
(* Vocabulary of the FileWatcher claims.                                   *)
(***************************************************************************)
\* What the writer puts in the file: the byte with an odd id is an "a",
\* the byte with an even id a ".", so that the file reads "a.a.a." from
\* its first byte on.
FileText(bytes) == [i \in 1..Len(bytes) |-> IF bytes[i] % 2 = 1 THEN "a" ELSE "."]

\* The matcher is given everything the watcher has returned so far.
ProbedTextCarriesOver(results) == FileText(ConcatBytes(results))

\* output, err := p.w.Check(); p.match(output): the bytes of this probe.
ProbedText(results) == FileText(results[Len(results)].bytes)

\* All bytes written since construction, in the order written.
Appended == FreshBytes(Len(trace.pre), trace.written - Len(trace.pre))

\* No member of sequence s occurs in it twice.
NoDuplicates(s) == \A i, j \in 1..Len(s) : i # j => s[i] # s[j]

\* The watcher is open and nothing but appends happened to the file.
AppendOnly ==
    /\ trace.constructed = "ok"
    /\ fw.state = "open"
    /\ trace.seen \subseteq {"append"}

\* C11: on a file that is only appended to, no Check fails, the first Check
\* returns nothing, and each Check returns exactly the bytes appended since
\* the Check before it: the Checks together have returned every appended
\* byte once, in order, and none of the content from before construction.
C11_AppendedDeliveredOnce ==
    AppendOnly =>
        /\ \A i \in 1..Len(trace.results) : ~trace.results[i].err
        /\ Len(Delivered) <= Len(Appended)
        /\ Delivered = SubSeq(Appended, 1, Len(Delivered))
        /\ trace.lastOp = "check" => Delivered = Appended

\* C11 happens: a non-empty file, a Check returning nothing, an append of
\* two bytes, a Check returning them and a Check returning nothing.
C11_Witness ==
    /\ AppendOnly
    /\ Len(trace.pre) > 0
    /\ Len(trace.results) = 3
    /\ trace.results[1] = [bytes |-> <<>>, err |-> FALSE]
    /\ trace.results[2] = [bytes |-> FreshBytes(Len(trace.pre), 2), err |-> FALSE]
    /\ trace.results[3] = [bytes |-> <<>>, err |-> FALSE]

\* The watcher is open and the file at the path was appended to and
\* truncated in place, never rotated, and no Check met an I/O fault.
TruncatedInPlace ==
    /\ trace.constructed = "ok"
    /\ fw.state = "open"
    /\ trace.seen \subseteq {"append", "truncate"}

\* C12: on a file that is appended to and truncated in place, no Check
\* fails, no byte is returned by two Checks, and after a Check every byte
\* that was appended and is still in the file has been returned.
C12_TruncationResets ==
    TruncatedInPlace =>
        /\ \A i \in 1..Len(trace.results) : ~trace.results[i].err
        /\ NoDuplicates(Delivered)
        /\ trace.lastOp = "check" =>
               (Range(PathData) \cap Range(Appended)) \subseteq Range(Delivered)

\* The watcher is open and the file at the path was rotated, and appended
\* to, but never truncated, and no Check met an I/O fault.
Rotated ==
    /\ trace.constructed = "ok"
    /\ fw.state = "open"
    /\ "rotate" \in trace.seen
    /\ trace.seen \subseteq {"append", "rotate"}

\* C13: after a Check that follows a rotation the watcher reads the file
\* that is now at the watched path, and every byte of that file has been
\* returned.
C13_RotationReopens ==
    (Rotated /\ trace.lastOp = "check") =>
        /\ fw.file = disk.at
        /\ Range(PathData) \subseteq Range(Delivered)

\* C14: on a file that is appended to and truncated in place, no Check
\* returns a byte that was in the file when NewFileWatcher was called.
C14_PreExistingNeverReturned ==
    TruncatedInPlace => Range(Delivered) \cap Range(trace.pre) = {}

\* C15: however often Close is called, the handle is closed once, by the
\* first Close, and every later Close returns nil.
C15_CloseReleasesOnce ==
    trace.constructed = "ok" =>
        /\ trace.handleCloses = (IF trace.closeRets = <<>> THEN 0 ELSE 1)
        /\ trace.closeRets # <<>> => fw.file = 0
        /\ \A i \in 2..Len(trace.closeRets) : trace.closeRets[i] = FALSE

\* C15 happens: Close was called twice on a watcher.
C15_Witness ==
    /\ trace.constructed = "ok"
    /\ Len(trace.closeRets) = 2
    /\ trace.handleCloses = 1
    /\ trace.lastOp = "close"

(***************************************************************************)
(* CommandWatcher (pkg/watcher).                                           *)
(*                                                                         *)
(* Each Check hands the command to a shell.  What the shell does is the    *)
(* environment's choice: it cannot be started, or it runs, writes some     *)
(* bytes to stdout and stderr and exits with a status.                     *)
(***************************************************************************)
Commands == {"c1", "c2"}

\* What one child process can write.
CommandOutputs == {<<>>, <<"a", ".">>, <<"x">>}

ExitStatuses == {0, 1}

\* What can happen to the child process of one Check.
ChildRuns ==
    [started : {TRUE}, exit : ExitStatuses, out : CommandOutputs]
        \cup {[started |-> FALSE, exit |-> 0, out |-> <<>>]}

\* A Check that reports every run of the command as a success.
CombinedOutputErrSwallowed(run) == FALSE

\* The error of cmd.CombinedOutput: non-nil when the shell could not be
\* started or exited with a non-zero status.
CombinedOutputErr(run) == ~run.started \/ run.exit # 0

CommandInit ==
    /\ PollerIdle
    /\ FileIdle
    /\ MatchIdle
    /\ MainIdle
    /\ JitterIdle
    /\ CmdIdle

\* NewCommandWatcher(cmd)
NewCommandWatcher ==
    /\ cw.state = "none"
    /\ \E c \in Commands : cw' = [state |-> "made", command |-> c]
    /\ UNCHANGED <<pollerVars, fileVars, matchVars, mainVars, jitterVars, procs>>

\* CommandWatcher.Check: one exec.Command of the shell with cw.command,
\* then CombinedOutput; returns the captured bytes and the error.
CommandCheckCall ==
    /\ cw.state = "made"
    /\ \E run \in ChildRuns :
        procs' = Append(procs, [command |-> cw.command,
                                run |-> run,
                                bytes |-> run.out,
                                err |-> CombinedOutputErr(run)])

\* A program that calls Check on a CommandWatcher a few times.
CommandCheck ==
    /\ Len(procs) < MaxCmdChecks
    /\ CommandCheckCall
    /\ UNCHANGED <<pollerVars, fileVars, matchVars, mainVars, jitterVars, cw>>

CommandNext == NewCommandWatcher \/ CommandCheck

SpecCommand == CommandInit /\ [][CommandNext]_vars

\* C19: every Check starts one shell with the watcher's command; when the
\* child exits with a non-zero status Check returns an error together with
\* the bytes the child wrote, when it exits with 0 it returns the bytes and
\* no error; the result of a Check depends on its own child only, and the
\* watcher is the same after a Check as before.
C19_CommandCheckResult ==
    \A i \in 1..Len(procs) :
        /\ procs[i].command = cw.command
        /\ procs[i].run.started =>
            /\ procs[i].bytes = procs[i].run.out
            /\ procs[i].err = (procs[i].run.exit # 0)

\* C19 happens: a Check whose child wrote bytes and exited with 1, then a
\* Check whose child wrote the same bytes and exited with 0.
C19_Witness ==
    /\ Len(procs) = 2
    /\ procs[1].run = [started |-> TRUE, exit |-> 1, out |-> <<"a", ".">>]
    /\ procs[1].err
    /\ procs[2].run = [started |-> TRUE, exit |-> 0, out |-> <<"a", ".">>]
    /\ ~procs[2].err

(***************************************************************************)
(* Poller.match applied on its own to every pattern and every probed text  *)
(* of bounded length over a small alphabet, in each of its four modes.     *)
(***************************************************************************)
MatchAlphabet == {"a", "A", "."}

\* The sequences over set S of length n at most.
SeqsUpTo(S, n) == UNION {[1..k -> S] : k \in 0..n}

MatchInit ==
    /\ pattern \in SeqsUpTo(MatchAlphabet, MaxPatLen)
    /\ regex \in BOOLEAN
    /\ ignoreCase \in BOOLEAN
    /\ interval = 0
    /\ maxRetries = 0
    /\ backoff = 1
    /\ hasDeadline = FALSE
    /\ deadline = 0
    /\ attempt = 0
    /\ nextInterval = 0
    /\ pc = "idle"
    /\ outcome = "none"
    /\ now = 0
    /\ waited = 0
    /\ history = <<>>
    /\ candidate \in SeqsUpTo(MatchAlphabet, MaxCandLen)
    /\ verdict = NoVerdict
    /\ FileIdle
    /\ CmdIdle
    /\ MainIdle
    /\ JitterIdle

\* p.match(candidate)
ApplyMatch ==
    /\ pc = "idle"
    /\ ~verdict.applied
    /\ verdict' = [applied |-> TRUE,
                   matched |-> match(candidate).matched,
                   err |-> match(candidate).err]
    /\ UNCHANGED <<pollerVars, fileVars, cmdVars, mainVars, jitterVars, candidate>>

MatchNext == ApplyMatch

SpecMatch == MatchInit /\ [][MatchNext]_vars

\* p is the start of s, byte for byte.
IsPrefix(p, s) == Len(p) <= Len(s) /\ \A i \in 1..Len(p) : p[i] = s[i]

\* p occurs in s as a contiguous run of bytes: at its start, or in what
\* follows its first byte.
RECURSIVE OccursIn(_, _)
OccursIn(p, s) ==
    \/ IsPrefix(p, s)
    \/ s # <<>> /\ OccursIn(p, Tail(s))

\* C20: in literal, case-sensitive mode match returns no error, and returns
\* true exactly when the pattern occurs in the probed bytes as a contiguous
\* run of bytes.
C20_LiteralMatchIsSubstring ==
    (verdict.applied /\ ~regex /\ ~ignoreCase) =>
        /\ ~verdict.err
        /\ verdict.matched = OccursIn(pattern, candidate)

\* C20 happens: a two-byte pattern found at the end of a text that starts
\* with the pattern's first byte in the other case.
C20_Witness ==
    /\ verdict.applied
    /\ ~regex
    /\ ~ignoreCase
    /\ pattern = <<"a", ".">>
    /\ candidate = <<"A", "a", ".">>
    /\ verdict.matched

(***************************************************************************)
(* main: flag handling, the choice of the watcher, the poll and the        *)
(* follow-up command.  The poll is Poller.Run as modelled above, entered   *)
(* by MainRun and left when pc = "done".  --jitter is given in hundredths. *)
(***************************************************************************)
\* The pattern flags tried: no pattern, a literal, a regexp that compiles
\* and one that does not.
MainMatchers ==
    {[pattern |-> <<>>,          regex |-> FALSE, ignoreCase |-> FALSE],
     [pattern |-> <<"a", ".">>,  regex |-> FALSE, ignoreCase |-> FALSE],
     [pattern |-> <<"a", ".">>,  regex |-> TRUE,  ignoreCase |-> TRUE],
     [pattern |-> <<"[", "a">>,  regex |-> TRUE,  ignoreCase |-> FALSE]}

\* The command lines tried.  parseErr: pflag.Parse refuses the command line
\* (a flag that is not defined, a value that does not parse); the other
\* fields are the values of the flags.
FlagSets ==
    [parseErr : BOOLEAN, help : BOOLEAN, version : BOOLEAN,
     command : {"", "c1"}, file : {"", "f"},
     matcher : MainMatchers,
     interval : {1}, maxRetries : {-1, 0, 1, 2}, backoff : {0, 2}, jitter : {0, 150},
     timeout : {0, 1},
     onSuccess : {"", "s"}, onFail : {"", "f"}]

\* A validation that lets --command and --file through together.
InvalidFlagsAllowsBoth(f) ==
    \/ f.command = "" /\ f.file = ""
    \/ f.matcher.pattern = <<>>
    \/ f.backoff < 1
    \/ f.jitter < 0 \/ f.jitter > 100

\* Argument validation: the command line is refused.
InvalidFlags(f) ==
    \/ f.command # "" /\ f.file # ""
    \/ f.command = "" /\ f.file = ""
    \/ f.matcher.pattern = <<>>
    \/ f.backoff < 1
    \/ f.jitter < 0 \/ f.jitter > 100

\* The exit status of pflag.Parse when it refuses the command line: the
\* flag set of the command line handles errors with ExitOnError, which
\* prints the error and calls os.Exit(2).
ParseErrorExit == 2

\* A main that gives the context a deadline whatever --timeout is.
WithTimeoutAlways(t) == TRUE

\* if *timeout > 0: the context is replaced by context.WithTimeout.
WithTimeout(t) == t > 0

\* An Execute that hands an empty command to the shell like any other.
ExecuteErrsEvenIfEmpty(command) == BOOLEAN

\* executor.Execute: whether it can return an error.  For an empty command
\* it returns nil at once; else it returns what cmd.Run returns.
ExecuteErrs(command) == IF command = "" THEN {FALSE} ELSE BOOLEAN

\* executor.Execute: whether it starts a process.
ExecuteSpawns(command) == command # ""

\* A main that goes on when NewFileWatcher returned an error.
AfterNewFileWatcherGoesOn(err) == [mpc |-> "new", exit |-> -1]

\* Where main is after NewFileWatcher, and the exit status if it has exited.
AfterNewFileWatcher(err) ==
    IF err THEN [mpc |-> "exited", exit |-> 1] ELSE [mpc |-> "new", exit |-> -1]

\* A main that runs the success command whatever the poll returned.
FollowUpAlwaysSuccess(success) == "success"

\* The follow-up main runs: the success command if Run returned true, the
\* on-fail command if not.
FollowUpFor(success) == IF success THEN "success" ELSE "fail"

\* A main whose exit status is that of the follow-up command alone.
ExitOfFollowUpOnly(success, err) == IF err THEN 1 ELSE 0

\* The exit status after the follow-up: 1 when Execute returned an error,
\* else 0 after a success (main returns) and 1 after a failure (os.Exit(1)).
ExitAfterFollowUp(success, err) ==
    IF err THEN 1 ELSE IF success THEN 0 ELSE 1

\* A main whose deferred calls run however it ends.
MainReturnsAlways(success, err) == TRUE

\* main reaches its end, where the deferred calls run: the run matched and
\* the success command returned nil.  Every other path ends in os.Exit(1).
MainReturns(success, err) == success /\ ~err

MainInit ==
    /\ PollerIdle
    /\ CmdIdle
    /\ MatchIdle
    /\ JitterIdle
    /\ flags \in FlagSets
    /\ mpc = "start"
    /\ exitStatus = -1
    /\ executed = <<>>
    /\ \E p \in 0..1, exists \in BOOLEAN :
        /\ disk = IF exists
                  THEN [at |-> 1, data |-> <<FreshBytes(0, p)>>]
                  ELSE [at |-> 0, data |-> <<>>]
        /\ trace = [NoTrace EXCEPT !.written = IF exists THEN p ELSE 0]
    /\ fw = NoWatcher

\* pflag.Parse, which ends the process when it refuses the command line,
\* then --help, --version and the argument validation.
MainParse ==
    /\ mpc = "start"
    /\ IF flags.parseErr
       THEN mpc' = "exited" /\ exitStatus' = ParseErrorExit
       ELSE IF flags.help \/ flags.version
       THEN mpc' = "exited" /\ exitStatus' = 0
       ELSE IF InvalidFlags(flags)
       THEN mpc' = "exited" /\ exitStatus' = 1
       ELSE mpc' = "watcher" /\ UNCHANGED exitStatus
    /\ UNCHANGED <<pollerVars, fileVars, cmdVars, matchVars, jitterVars, flags, executed>>

\* Watcher selection: NewCommandWatcher, or NewFileWatcher, whose error
\* ends the process with status 1.
MainSelectWatcher ==
    /\ mpc = "watcher"
    /\ IF flags.command # ""
       THEN /\ cw' = [state |-> "made", command |-> flags.command]
            /\ mpc' = "new"
            /\ UNCHANGED <<fw, trace, exitStatus>>
       ELSE /\ NewFileWatcherCall
            /\ mpc' = AfterNewFileWatcher(trace'.constructed = "error").mpc
            /\ exitStatus' = AfterNewFileWatcher(trace'.constructed = "error").exit
            /\ UNCHANGED cw
    /\ UNCHANGED <<pollerVars, matchVars, jitterVars, disk, procs, flags, executed>>

\* poller.New, the context with its timeout, and the entry into Run.
MainRun ==
    /\ mpc = "new"
    /\ pattern' = flags.matcher.pattern
    /\ regex' = flags.matcher.regex
    /\ ignoreCase' = flags.matcher.ignoreCase
    /\ interval' = flags.interval
    /\ maxRetries' = flags.maxRetries
    /\ backoff' = flags.backoff
    /\ hasDeadline' = WithTimeout(flags.timeout)
    /\ deadline' = now + flags.timeout
    /\ pc' = "check"
    /\ mpc' = "run"
    /\ UNCHANGED <<attempt, nextInterval, outcome, now, waited, history,
                   fileVars, cmdVars, matchVars, jitterVars, flags, exitStatus, executed>>

\* One pass through the loop body of Run as main calls it: p.w.Check() is
\* the Check of the watcher main has built: a shell started by the
\* CommandWatcher, or a step of the Check of the FileWatcher, the rest of
\* the loop body following on the step on which that Check returns.
MainIterate ==
    /\ mpc = "run"
    /\ pc = "check"
    /\ Len(history) < MaxProbes
    /\ IF cw.state = "made"
       THEN /\ CommandCheckCall
            /\ \E d \in ProbeTimes :
                 IterateWith([out |-> procs'[Len(procs')].bytes,
                              err |-> procs'[Len(procs')].err], d)
            /\ UNCHANGED <<fileVars, cw>>
       ELSE /\ FileCheckCall
            /\ IF FileCheckReturns
               THEN \E d \in ProbeTimes :
                      IterateWith([out |-> ProbedText(trace'.results),
                                   err |-> trace'.results[Len(trace'.results)].err], d)
               ELSE UNCHANGED <<history, now, pc, outcome, attempt, nextInterval>>
            /\ UNCHANGED <<cmdVars, disk>>
    /\ UNCHANGED <<config, waited, matchVars, mainVars, jitterVars>>

\* Another process appends to the watched file while Run polls it.
MainFileAppend ==
    /\ mpc = "run"
    /\ pc \in {"check", "wait"}
    /\ FileAppendCall
    /\ UNCHANGED <<notFile, fw>>

\* After Run has returned: executor.Execute of the success command or of
\* the on-fail command, then the exit.  Execute starts no process for an
\* empty command and returns nil; else it returns the error of cmd.Run.
\* The deferred Close of a FileWatcher runs when main returns, not when it
\* calls os.Exit.
MainFollowUp ==
    /\ mpc = "run"
    /\ pc = "done"
    /\ LET success == (outcome = "Matched")
           which   == FollowUpFor(success)
           command == IF which = "success" THEN flags.onSuccess ELSE flags.onFail
       IN \E err \in ExecuteErrs(command) :
           /\ executed' = Append(executed, [which   |-> which,
                                            command |-> command,
                                            spawned |-> ExecuteSpawns(command),
                                            err     |-> err])
           /\ exitStatus' = ExitAfterFollowUp(success, err)
           /\ IF MainReturns(success, err) /\ fw.file # 0
              THEN /\ fw' = [fw EXCEPT !.state = "closed",
                                       !.file = HandleAfterClose(fw.file)]
                   /\ trace' = [trace EXCEPT !.closeRets = Append(@, FALSE),
                                             !.handleCloses = @ + 1,
                                             !.lastOp = "close"]
              ELSE UNCHANGED <<fw, trace>>
    /\ mpc' = "exited"
    /\ UNCHANGED <<pollerVars, cmdVars, matchVars, jitterVars, disk, flags>>

MainNext ==
    \/ MainParse
    \/ MainSelectWatcher
    \/ MainRun
    \/ MainIterate
    \/ MainFileAppend
    \/ WaitTimer
    \/ WaitCtxDone
    \/ MainFollowUp

SpecMain == MainInit /\ [][MainNext]_vars

(***************************************************************************)
(* Vocabulary of the claims about main.                                    *)
(***************************************************************************)
Exited == mpc = "exited"

\* main called poller.Run and Run has returned.
PollReturned == mpc \in {"run", "exited"} /\ pc = "done"

FailureOutcomes == {"ExhaustedRetries", "TimedOut", "FatalError"}

\* C16: when main calls NewFileWatcher and there is no file to open, it
\* gets an error and no watcher, and the process has exited with status 1
\* without a probe and without a follow-up command.
C16_OpenErrorIsFatal ==
    (trace.constructed # "no" /\ disk.at = 0) =>
        /\ trace.constructed = "error"
        /\ fw.state = "none"
        /\ Exited
        /\ exitStatus = 1
        /\ pc = "idle"
        /\ history = <<>>
        /\ trace.results = <<>>
        /\ executed = <<>>

\* C16 happens: --file names a path with no file, and main has called
\* NewFileWatcher.
C16_Witness ==
    /\ flags.file # ""
    /\ disk.at = 0
    /\ trace.constructed = "error"
    /\ Exited

\* The poll ended with Matched and Execute of the success command returned
\* no error.
MatchedAndFollowUpOk ==
    /\ PollReturned
    /\ outcome = "Matched"
    /\ Len(executed) = 1
    /\ executed[1].which = "success"
    /\ ~executed[1].err

\* C17, as claimed: a process that has exited has status 0 exactly when the
\* poll ended with Matched and the success command returned no error.
C17_ExitZeroIffMatched ==
    Exited => (exitStatus = 0 <=> MatchedAndFollowUpOk)

\* main has shown the usage or the version: the command line parsed and
\* --help or --version was given.
HelpOrVersionShown == ~flags.parseErr /\ (flags.help \/ flags.version)

\* C17, amended: a process that has exited has status 0 exactly when the
\* poll ended with Matched and the success command returned no error, or
\* when it was asked for --help or --version and has shown it without
\* polling; the status is non-zero after ExhaustedRetries, TimedOut or
\* FatalError whatever the on-fail command returned, and non-zero when the
\* follow-up command returned an error.
C17_ExitZeroIffMatchedOrHelp ==
    Exited =>
        /\ exitStatus = 0 <=> (MatchedAndFollowUpOk \/ HelpOrVersionShown)
        /\ HelpOrVersionShown => ~PollReturned
        /\ (PollReturned /\ outcome \in FailureOutcomes) => exitStatus # 0
        /\ (executed # <<>> /\ executed[1].err) => exitStatus # 0

\* C17 happens: a failed poll whose on-fail command succeeded.
C17_Witness ==
    /\ Exited
    /\ ~flags.help
    /\ ~flags.version
    /\ outcome = "ExhaustedRetries"
    /\ Len(executed) = 1
    /\ executed[1].command # ""
    /\ ~executed[1].err
    /\ exitStatus # 0

\* C18: executor.Execute is not called before Run has returned and is
\* called once after it: with the success command exactly when the outcome
\* is Matched, with the on-fail command exactly when it is
\* ExhaustedRetries, TimedOut or FatalError.  The call starts a process
\* exactly when that command is not empty.
C18_OneFollowUp ==
    /\ Len(executed) <= 1
    /\ executed # <<>> => PollReturned /\ Exited
    /\ (Exited /\ PollReturned) =>
        /\ Len(executed) = 1
        /\ outcome \in {"Matched"} \cup FailureOutcomes
        /\ executed[1].which = "success" <=> outcome = "Matched"
        /\ executed[1].which = "fail" <=> outcome \in FailureOutcomes
        /\ executed[1].command =
               (IF outcome = "Matched" THEN flags.onSuccess ELSE flags.onFail)
        /\ executed[1].spawned <=> executed[1].command # ""

\* C18 happens: the run timed out and the on-fail command was run.
C18_Witness ==
    /\ Exited
    /\ outcome = "TimedOut"
    /\ Len(executed) = 1
    /\ executed[1] = [which |-> "fail", command |-> "f", spawned |-> TRUE, err |-> FALSE]

(***************************************************************************)
(* Further claims about Poller.match on its own (SpecMatch).               *)
(***************************************************************************)
\* C21: in literal, case-insensitive mode match returns no error and its
\* result is the case-sensitive occurrence of the lower-cased pattern in
\* the lower-cased bytes; patterns and texts that differ in letter case
\* only therefore get the same result.
C21_IgnoreCaseIsLowerContainment ==
    (verdict.applied /\ ~regex /\ ignoreCase) =>
        /\ ~verdict.err
        /\ verdict.matched = OccursIn(ToLower(pattern), ToLower(candidate))

\* C21 happens: an upper-case pattern found in a lower-case text.
C21_Witness ==
    /\ verdict.applied
    /\ ~regex
    /\ ignoreCase
    /\ pattern = <<"A", ".">>
    /\ candidate = <<".", "a", ".">>
    /\ verdict.matched

(***************************************************************************)
(* Further claims about Poller.Run (Spec, FairSpec).                       *)
(***************************************************************************)
\* max-retries is 0, no deadline is set and the pattern can be evaluated.
Unbounded == maxRetries = 0 /\ ~hasDeadline /\ PatternUsable

\* C22: an unbounded run whose source never matches never returns, and it
\* goes on probing: it makes every probe the model follows (MaxProbes).
C22_UnboundedRunNeverEnds ==
    Unbounded =>
        /\ [](NeverMatched => ~Done)
        /\ <>(~NeverMatched \/ Probes = MaxProbes)

\* C22 happens: an unbounded run has made MaxProbes probes without a match
\* and is back at the top of the loop.
C22_Witness ==
    /\ Unbounded
    /\ NeverMatched
    /\ Probes = MaxProbes
    /\ attempt = MaxProbes
    /\ pc = "check"

\* C23: with a deadline and a positive interval, whatever max-retries is,
\* Run returns: the outcome is Matched, ExhaustedRetries, TimedOut or
\* FatalError.
C23_DeadlineTerminates ==
    (hasDeadline /\ interval > 0) =>
        <>(Done /\ outcome \in {"Matched", "ExhaustedRetries", "TimedOut", "FatalError"})

\* C23 happens: a run with max-retries = 0 and a deadline has ended with
\* TimedOut after more than one probe.
C23_Witness ==
    /\ hasDeadline
    /\ interval > 0
    /\ maxRetries = 0
    /\ Done
    /\ outcome = "TimedOut"
    /\ Probes > 1

(***************************************************************************)
(* Further claims about main (SpecMain).                                   *)
(***************************************************************************)
\* The command line has a configuration error: both or neither of
\* --command and --file, an empty pattern, backoff < 1, or jitter outside
\* [0, 1].
ConfigError ==
    \/ flags.command # "" /\ flags.file # ""
    \/ flags.command = "" /\ flags.file = ""
    \/ flags.matcher.pattern = <<>>
    \/ flags.backoff < 1
    \/ flags.jitter < 0 \/ flags.jitter > 100

\* The argument validation of main has refused the command line: the
\* process has exited with status 1 and has constructed no watcher, made no
\* probe and run no follow-up command.
RefusedBeforeProbing ==
    /\ Exited
    /\ exitStatus = 1
    /\ cw.state = "none"
    /\ fw.state = "none"
    /\ trace.constructed = "no"
    /\ pc = "idle"
    /\ history = <<>>
    /\ executed = <<>>

\* The process has exited with a non-zero status and has constructed no
\* watcher, made no probe and run no follow-up command.
FatalBeforeProbing ==
    /\ Exited
    /\ exitStatus # 0
    /\ cw.state = "none"
    /\ fw.state = "none"
    /\ trace.constructed = "no"
    /\ pc = "idle"
    /\ history = <<>>
    /\ executed = <<>>

\* C24, as claimed: once the flags have been looked at, a command line with
\* a configuration error has ended the process with a non-zero status
\* before any watcher, probe or follow-up command.
C24_ConfigErrorIsFatal ==
    (mpc # "start" /\ ConfigError) => FatalBeforeProbing

\* C24, amended: the same, for a command line without --help and --version.
C24_ConfigErrorIsFatalUnlessHelp ==
    (mpc # "start" /\ ~flags.help /\ ~flags.version /\ ConfigError) => FatalBeforeProbing

\* C24 happens: --command and --file were both given, with a pattern and
\* valid factors, on a command line that parses, and the process has
\* exited.
C24_Witness ==
    /\ Exited
    /\ ~flags.parseErr
    /\ ~flags.help
    /\ ~flags.version
    /\ flags.command # ""
    /\ flags.file # ""
    /\ flags.matcher.pattern # <<>>
    /\ flags.backoff >= 1
    /\ flags.jitter = 0
    /\ exitStatus # 0
    /\ FatalBeforeProbing

(***************************************************************************)
(* Jitter.  main hands --jitter to Poller.Run; the delay computation of    *)
(* Run is the one above, and the perturbation is the specified one: the    *)
(* computed delay is changed by a fraction of itself drawn from            *)
(* [-jitter, +jitter] anew at each attempt.  Factors and draws are in      *)
(* hundredths, realized waits in ten-thousandths of a second, so that the  *)
(* arithmetic is exact.                                                    *)
(***************************************************************************)
\* Values of --jitter that pass the validation (0 to 1).
JitterFactors == {0, 50, 100}

\* The draws followed: the ends, the middle and the quarters of [-1, 1].
Draws == {-100, -50, 0, 50, 100}

\* A perturbation that ignores the factor: up to the whole delay either way.
JitteredDelayUnscaled(delay, j, u) == delay * 10000 + delay * 100 * u

\* delay * (1 + j * u), in ten-thousandths of a second.
JitteredDelay(delay, j, u) == delay * 10000 + delay * j * u

JitterInit ==
    /\ pattern = <<>>
    /\ regex = FALSE
    /\ ignoreCase = FALSE
    /\ interval \in Intervals
    /\ maxRetries = 0
    /\ backoff \in Backoffs
    /\ hasDeadline = FALSE
    /\ deadline = 0
    /\ attempt = 0
    /\ nextInterval = 0
    /\ pc = "idle"
    /\ outcome = "none"
    /\ now = 0
    /\ waited = 0
    /\ history = <<>>
    /\ jitter \in JitterFactors
    /\ waits = <<>>
    /\ FileIdle
    /\ CmdIdle
    /\ MatchIdle
    /\ MainIdle

\* After a failed attempt: attempt++, the delay, its perturbation.
JitteredWait ==
    /\ pc = "idle"
    /\ Len(waits) < MaxJitterWaits
    /\ attempt' = attempt + 1
    /\ nextInterval' = NextDelay(attempt + 1)
    /\ \E u \in Draws :
        waits' = Append(waits, [delay    |-> NextDelay(attempt + 1),
                                realized |-> JitteredDelay(NextDelay(attempt + 1), jitter, u)])
    /\ UNCHANGED <<config, pc, outcome, now, waited, history,
                   fileVars, cmdVars, matchVars, mainVars, jitter>>

JitterNext == JitteredWait

SpecJitter == JitterInit /\ [][JitterNext]_vars

\* C25: the wait after failed attempt n lies within jitter times the
\* computed delay min(interval * backoff^n, one hour) of that delay, and
\* is the computed delay when the jitter factor is 0.
C25_JitterWithinFactor ==
    \A n \in 1..Len(waits) :
        LET delay == Min(interval * Pow(backoff, n), Hour) IN
        /\ waits[n].delay = delay
        /\ waits[n].realized >= delay * (100 - jitter) * 100
        /\ waits[n].realized <= delay * (100 + jitter) * 100
        /\ jitter = 0 => waits[n].realized = delay * 10000

\* C25 happens: with a factor of one half, a first wait shorter than its
\* computed delay and a second wait longer than its own.
C25_Witness ==
    /\ jitter = 50
    /\ interval > 0
    /\ Len(waits) = 2
    /\ waits[1].realized < waits[1].delay * 10000
    /\ waits[2].realized > waits[2].delay * 10000

\* main has called poller.Run.
RunEntered == mpc \in {"run", "exited"} /\ pc # "idle"

\* C26: with --timeout 0 the context of Run has no deadline, the run does
\* not end with TimedOut, and when Run has returned the outcome is Matched,
\* ExhaustedRetries or FatalError.
C26_NoTimeoutNoTimedOut ==
    (RunEntered /\ flags.timeout = 0) =>
        /\ ~hasDeadline
        /\ outcome # "TimedOut"
        /\ Done => outcome \in {"Matched", "ExhaustedRetries", "FatalError"}

\* C26 happens: a run with --timeout 0 has waited between two probes and
\* has ended with ExhaustedRetries.
C26_Witness ==
    /\ RunEntered
    /\ flags.timeout = 0
    /\ Done
    /\ outcome = "ExhaustedRetries"
    /\ Probes = 2

\* C27: a call of Execute with the empty command starts no process and
\* returns nil; a matched run without a success command exits with 0, a
\* failed run without an on-fail command with 1.
C27_EmptyFollowUp ==
    /\ \A i \in 1..Len(executed) :
        executed[i].command = "" => ~executed[i].spawned /\ ~executed[i].err
    /\ (Exited /\ PollReturned /\ outcome = "Matched" /\ flags.onSuccess = "")
          => exitStatus = 0
    /\ (Exited /\ PollReturned /\ outcome \in FailureOutcomes /\ flags.onFail = "")
          => exitStatus = 1

\* C27 happens: a matched run without a success command has exited.
C27_Witness ==
    /\ Exited
    /\ outcome = "Matched"
    /\ flags.onSuccess = ""
    /\ executed = <<[which |-> "success", command |-> "", spawned |-> FALSE, err |-> FALSE]>>
    /\ exitStatus = 0

(***************************************************************************)
(* Further claims about Poller.Run (Spec).  pc = "check" is the loop at    *)
(* p.w.Check(): the probe is in flight until Iterate, its return, happens. *)
(***************************************************************************)
\* C28: while a probe is in flight the only step of the run is the return
\* of that probe, whatever the deadline (a probe that never returns leaves
\* the run where it is); the outcome becomes TimedOut at the wait only; and
\* the bytes of every probe are matched, those of a probe during which the
\* deadline expired included: matching bytes give the outcome Matched.
C28_DeadlineDoesNotInterruptProbe ==
    /\ [][pc = "check" => Probes' = Probes + 1]_vars
    /\ [][(outcome # "TimedOut" /\ outcome' = "TimedOut") => pc = "wait"]_vars
    /\ [](\A i \in 1..Probes : Matching(i) => (Done /\ outcome = "Matched"))

\* C28 happens: the deadline expired while the last probe was in flight,
\* the probe returned matching bytes and the outcome is Matched.
C28_Witness ==
    /\ hasDeadline
    /\ Probes > 1
    /\ history[Probes].start < deadline
    /\ deadline <= now
    /\ Matching(Probes)
    /\ Done
    /\ outcome = "Matched"

\* C29: when the bytes of the last probe match, the outcome is Matched:
\* also when that probe was the last one the retry ceiling allows, and also
\* when the deadline had expired by the time it returned.
C29_MatchBeforeStop ==
    (Probes >= 1 /\ Matching(Probes)) =>
        /\ Done
        /\ outcome = "Matched"
        /\ (maxRetries > 0 /\ Probes = maxRetries) => outcome # "ExhaustedRetries"
        /\ (hasDeadline /\ deadline <= now) => outcome # "TimedOut"

\* C29 happens: the probe of attempt max-retries returned matching bytes
\* after the deadline had expired.
C29_Witness ==
    /\ maxRetries > 1
    /\ Probes = maxRetries
    /\ hasDeadline
    /\ deadline > 0
    /\ deadline <= now
    /\ Matching(Probes)
    /\ outcome = "Matched"

\* C30: a run with max-retries = N > 0 has never made more than N probes,
\* whatever the probes returned and with or without a deadline; and after
\* Run has returned no probe is made.
C30_AtMostNProbes ==
    /\ [](maxRetries > 0 => Probes <= maxRetries)
    /\ [][Done => Probes' = Probes]_vars

\* C30 happens: a run with a deadline and max-retries = 2 has made its two
\* probes, the first of which returned an error, and has returned.
C30_Witness ==
    /\ maxRetries = 2
    /\ hasDeadline
    /\ Probes = 2
    /\ history[1].err
    /\ Done
    /\ outcome = "ExhaustedRetries"

(***************************************************************************)
(* The poller over a FileWatcher: main's file mode without flags and       *)
(* follow-ups.  The watcher is constructed, then Run probes it with Check  *)
(* while another process appends to the file.                              *)
(***************************************************************************)

FilePollMatchers ==
    { [pattern |-> <<"a", ".">>, regex |-> FALSE, ignoreCase |-> FALSE],
      [pattern |-> <<"A", ".">>, regex |-> FALSE, ignoreCase |-> TRUE],
      [pattern |-> <<"a", ".">>, regex |-> TRUE,  ignoreCase |-> FALSE] }

FilePollInit ==
    /\ \E m \in FilePollMatchers :
        /\ pattern = m.pattern
        /\ regex = m.regex
        /\ ignoreCase = m.ignoreCase
    /\ interval = 1
    /\ maxRetries \in 0..MaxRetriesBound
    /\ backoff = 1
    /\ hasDeadline \in BOOLEAN
    /\ deadline \in (IF hasDeadline THEN 1..MaxTimeout ELSE {0})
    /\ attempt = 0
    /\ nextInterval = 0
    /\ pc = "idle"
    /\ outcome = "none"
    /\ now = 0
    /\ waited = 0
    /\ history = <<>>
    /\ \E p \in 0..MaxPre :
        /\ disk = [at |-> 1, data |-> <<FreshBytes(0, p)>>]
        /\ trace = [NoTrace EXCEPT !.written = p]
    /\ fw = NoWatcher
    /\ CmdIdle
    /\ MatchIdle
    /\ MainIdle
    /\ JitterIdle

\* main in file mode: NewFileWatcher, then Run on the watcher it returned.
\* After an error of NewFileWatcher nothing is polled.
FilePollNew ==
    /\ pc = "idle"
    /\ NewFileWatcherCall
    /\ pc' = IF trace'.constructed = "ok" THEN "check" ELSE "idle"
    /\ UNCHANGED <<config, attempt, nextInterval, outcome, now, waited, history,
                   disk, cmdVars, matchVars, mainVars, jitterVars>>

\* The loop body with p.w.Check() being FileWatcher.Check: a step of the
\* Check, and when it is the step on which Check returns, the rest of the
\* loop body on what it returned.
FilePollIterate ==
    /\ pc = "check"
    /\ Len(history) < MaxProbes
    /\ FileCheckCall
    /\ IF FileCheckReturns
       THEN IterateWith([out |-> ProbedText(trace'.results),
                         err |-> trace'.results[Len(trace'.results)].err], 0)
       ELSE UNCHANGED <<history, now, pc, outcome, attempt, nextInterval>>
    /\ UNCHANGED <<config, waited, disk, cmdVars, matchVars, mainVars, jitterVars>>

\* Another process appends to the file while the poller runs.
FilePollAppend ==
    /\ pc \in {"check", "wait"}
    /\ FileAppendCall
    /\ UNCHANGED <<notFile, fw>>

FilePollNext ==
    \/ FilePollNew
    \/ FilePollIterate
    \/ FilePollAppend
    \/ WaitTimer
    \/ WaitCtxDone

SpecFilePoll == FilePollInit /\ [][FilePollNext]_vars

\* No single Check has returned bytes that satisfy the pattern.
NoCheckMatched ==
    \A i \in 1..Len(trace.results) : ~match(FileText(trace.results[i].bytes)).matched

\* C31: matching is per probe.  As long as no single Check has returned
\* bytes that satisfy the pattern the run does not end with a match, also
\* when the bytes the Checks returned, put together, contain the pattern.
C31_NoCarryOver == NoCheckMatched => outcome # "Matched"

\* C31 happens: "a" and "." are appended and read by two different probes;
\* everything appended has been returned, the returned bytes together
\* satisfy the pattern, and the run ended on the retry ceiling.
C31_Witness ==
    /\ NoCheckMatched
    /\ trace.pre = <<>>
    /\ Probes = 2
    /\ Len(trace.results[1].bytes) = 1
    /\ Len(trace.results[2].bytes) = 1
    /\ Delivered = Appended
    /\ match(FileText(Delivered)).matched
    /\ match(FileText(PathData)).matched
    /\ Done /\ outcome = "ExhaustedRetries"

\* C34: a Check that fails returns no bytes together with the error and
\* leaves the offset at the bytes before construction plus the bytes
\* returned so far, so that a Check that succeeds has returned everything
\* appended; the loop takes the failed probe as one that did not match: it
\* goes on to the wait and the next probe unless the retry ceiling or the
\* deadline ends the run.
C34_FailedCheckLosesNothing ==
    trace.constructed = "ok" =>
        /\ \A i \in 1..Len(trace.results) :
              trace.results[i].err => trace.results[i].bytes = <<>>
        /\ fw.offset = Len(trace.pre) + Len(Delivered)
        /\ (trace.lastOp = "check" /\ ~trace.results[Len(trace.results)].err) =>
              Delivered = Appended
        /\ \A i \in 1..Probes :
              history[i].err =>
                  /\ history[i].out = <<>>
                  /\ ~Matching(i)
                  /\ i = Probes =>
                        \/ pc \in {"wait", "check"}
                        \/ Done /\ outcome = "TimedOut"
                        \/ Done /\ outcome = "ExhaustedRetries" /\ Probes = maxRetries

\* C34 happens: bytes were appended, a Check failed without returning them
\* and the loop went on; the next Check succeeded and returned all of them.
C34_Witness ==
    /\ trace.constructed = "ok"
    /\ Probes = 2
    /\ history[1].err
    /\ history[1].start < history[2].start
    /\ ~history[2].err
    /\ trace.results[2].bytes = Appended
    /\ Len(Appended) = 1
    /\ trace.lastOp = "check"

(***************************************************************************)
(* Further properties of the FileWatcher (SpecFile).                       *)
(***************************************************************************)

\* The watcher is open, the file was only appended to, Checks may have failed.
AppendedOnlyMaybeFailing ==
    /\ trace.constructed = "ok"
    /\ fw.state = "open"
    /\ trace.seen \subseteq {"append", "fault"}

\* The last operation was a Check and it returned no error.
AfterGoodCheck ==
    /\ trace.lastOp = "check"
    /\ ~trace.results[Len(trace.results)].err

\* C32: on a file that is only appended to, the offset is never negative
\* and counts the bytes present at construction plus the bytes returned;
\* after a Check that succeeded it is the size of the file and the results
\* of all Checks, concatenated, are the bytes appended since construction in
\* the order written; between Checks the results are a prefix of them.
C32_OffsetTracksSize ==
    AppendedOnlyMaybeFailing =>
        /\ fw.offset >= 0
        /\ fw.offset = Len(trace.pre) + Len(Delivered)
        /\ IsPrefix(Delivered, Appended)
        /\ AfterGoodCheck =>
              /\ fw.offset = Len(HandleData)
              /\ Delivered = Appended

\* C32 happens: on a non-empty file two appends of one byte, each followed
\* by a Check that returned it.
C32_Witness ==
    /\ AppendedOnlyMaybeFailing
    /\ AfterGoodCheck
    /\ Len(trace.pre) > 0
    /\ Len(trace.results) = 2
    /\ Len(trace.results[1].bytes) = 1
    /\ Len(trace.results[2].bytes) = 1
    /\ fw.offset = Len(trace.pre) + 2

\* This step is the return of a Check without error.
GoodCheckStep ==
    /\ Len(trace'.results) = Len(trace.results) + 1
    /\ ~trace'.results[Len(trace'.results)].err

\* This step is the Stat of a Check that goes on to read.
StatStep == ~fw.reading /\ fw'.reading

\* C33, as claimed: a Check whose Stat finds the size of the file at or
\* above the offset does not reset the offset, whatever happened to the file
\* since the Check before: it reads from the offset on, returns none of the
\* bytes that lie below the offset and advances the offset by the number of
\* bytes it returns; a byte such a Check has left below the offset is
\* returned by no Check, ever.
C33_SkippedNeverDelivered ==
    /\ [][(StatStep /\ fw.offset <= Len(HandleData)) =>
             (fw'.offset = fw.offset /\ fw'.pos = fw.offset)]_vars
    /\ [][GoodCheckStep =>
             LET got == trace'.results[Len(trace'.results)].bytes
             IN  /\ Range(got) \cap SkippedBytes = {}
                 /\ fw'.offset = fw.offset + Len(got)]_vars
    /\ [](trace.skipped \cap Range(Delivered) = {})

\* C33, amended: the same, but a byte left below the offset is returned by
\* no Check only as long as no Check resets the offset: it is returned by no
\* Check up to the next Check whose Stat finds the file shorter than the
\* offset.
C33_SkippedUntilReset ==
    /\ [][(StatStep /\ fw.offset <= Len(HandleData)) =>
             (fw'.offset = fw.offset /\ fw'.pos = fw.offset)]_vars
    /\ [][GoodCheckStep =>
             LET got == trace'.results[Len(trace'.results)].bytes
             IN  /\ Range(got) \cap SkippedBytes = {}
                 /\ Range(got) \cap trace'.behind = {}
                 /\ fw'.offset = fw.offset + Len(got)]_vars
    /\ [](trace.behind \cap Range(Delivered) = {})

\* C33 happens: a file of 2 bytes, a Check, the file truncated to 1 byte and
\* regrown to 3 bytes, and a Check that returned the third byte only: the
\* second byte was written after construction, lies below the offset and
\* has not been returned.
C33_Witness ==
    /\ TruncatedInPlace
    /\ "truncate" \in trace.seen
    /\ AfterGoodCheck
    /\ Len(trace.results) = 2
    /\ Len(trace.pre) = 2
    /\ Len(PathData) = 3
    /\ trace.results[1].bytes = <<>>
    /\ trace.results[2].bytes = <<PathData[3]>>
    /\ fw.offset = 3
    /\ PathData[2] \in Range(Appended)
    /\ PathData[2] \in trace.behind

(***************************************************************************)
(* The delays of the poller, on their own: the delay computed after each   *)
(* failed attempt of a run that is never stopped, for intervals below, at  *)
(* and above one hour.                                                     *)
(***************************************************************************)

MaxDelaySteps == 4

DelayIntervals == {0, 1, 2, 1000, 2000, 3600, 4000, 5000}

DelayBackoffs == {1, 2, 3}

DelayInit ==
    /\ pattern = <<>>
    /\ regex = FALSE
    /\ ignoreCase = FALSE
    /\ interval \in DelayIntervals
    /\ maxRetries = 0
    /\ backoff \in DelayBackoffs
    /\ hasDeadline = FALSE
    /\ deadline = 0
    /\ attempt = 0
    /\ nextInterval = 0
    /\ pc = "idle"
    /\ outcome = "none"
    /\ now = 0
    /\ waited = 0
    /\ history = <<>>
    /\ OthersIdle

\* After a failed attempt: attempt++ and the delay of the wait that follows,
\* recorded with the attempt it belongs to.
DelayStep ==
    /\ pc = "idle"
    /\ Len(waits) < MaxDelaySteps
    /\ attempt' = attempt + 1
    /\ nextInterval' = NextDelay(attempt + 1)
    /\ waits' = Append(waits, [attempt |-> attempt + 1,
                               delay   |-> NextDelay(attempt + 1)])
    /\ UNCHANGED <<config, pc, outcome, now, waited, history,
                   fileVars, cmdVars, matchVars, mainVars, jitter>>

DelayNext == DelayStep

SpecDelay == DelayInit /\ [][DelayNext]_vars

\* C35: the waits never decrease from one attempt to the next and none is
\* longer than one hour; after a wait of one hour every wait is one hour;
\* with an interval above one hour every wait, the first included, is one
\* hour.
C35_WaitsGrowToCap ==
    /\ \A n \in 1..Len(waits) :
          /\ waits[n].attempt = n
          /\ waits[n].delay >= 0
          /\ waits[n].delay <= Hour
          /\ interval > Hour => waits[n].delay = Hour
    /\ \A n, m \in 1..Len(waits) :
          n < m =>
              /\ waits[n].delay <= waits[m].delay
              /\ waits[n].delay = Hour => waits[m].delay = Hour

\* C35 happens: a first wait below one hour, a second and a third wait of
\* one hour, the uncapped delays being above it.
C35_Witness ==
    /\ Len(waits) = 3
    /\ interval > 0
    /\ waits[1].delay < Hour
    /\ waits[1].delay > interval
    /\ waits[2].delay = Hour
    /\ waits[3].delay = Hour
    /\ interval * Pow(backoff, 2) > Hour

\* C36: a max-retries that is negative (or 0) is no reason for main to
\* refuse the command line, and Run never applies the retry ceiling: the
\* run does not end with ExhaustedRetries, and without a timeout a run whose
\* probes never match has not returned, however many probes it has made.
C36_NegativeRetriesNoCeiling ==
    (flags.maxRetries <= 0 /\ ~flags.help /\ ~flags.version) =>
        /\ (mpc # "start" /\ ~ConfigError) => ~RefusedBeforeProbing
        /\ RunEntered =>
              /\ maxRetries = flags.maxRetries
              /\ outcome # "ExhaustedRetries"
              /\ (flags.timeout = 0 /\ PatternUsable /\ NeverMatched) => ~Done

\* C36 happens: with max-retries -1 and no timeout the run has made every
\* probe the model follows without a match and is about to probe again.
C36_Witness ==
    /\ flags.maxRetries = -1
    /\ flags.timeout = 0
    /\ RunEntered
    /\ PatternUsable
    /\ NeverMatched
    /\ Probes = MaxProbes
    /\ attempt = MaxProbes
    /\ pc = "check"

\* C37: main calls FileWatcher.Close at most once, and only in file mode at
\* the end of a run that matched and whose success command returned nil,
\* where the call closes the handle and the process exits with 0; when the
\* process has exited with another status Close has not been called.
C37_CloseOnlyOnReturn ==
    /\ Len(trace.closeRets) <= 1
    /\ trace.closeRets # <<>> =>
          /\ Exited
          /\ exitStatus = 0
          /\ flags.file # ""
          /\ trace.constructed = "ok"
          /\ outcome = "Matched"
          /\ Len(executed) = 1
          /\ executed[1].which = "success"
          /\ ~executed[1].err
          /\ fw.state = "closed"
    /\ (Exited /\ exitStatus # 0) =>
          /\ trace.closeRets = <<>>
          /\ fw.state # "closed"
    /\ (Exited /\ exitStatus = 0 /\ trace.constructed = "ok") =>
          Len(trace.closeRets) = 1

\* C37 happens: in file mode the poll matched on its second probe, the
\* success command returned nil, main returned and its deferred Close has
\* closed the handle, once.
C37_Witness ==
    /\ Exited
    /\ flags.file # ""
    /\ flags.onSuccess # ""
    /\ trace.constructed = "ok"
    /\ outcome = "Matched"
    /\ Probes = 2
    /\ Len(executed) = 1
    /\ executed[1].which = "success"
    /\ exitStatus = 0
    /\ fw.state = "closed"
    /\ trace.closeRets = <<FALSE>>
    /\ trace.handleCloses = 1

====
